---- MODULE Spec2Model ----
(***************************************************************************)
(* Model of the weighted grid layout (package layout) and of the CMButton  *)
(* widget renderer (package widget).                                       *)
(*                                                                         *)
(* float32/float64 values are modelled as exact rationals <<n, d>> in      *)
(* lowest terms with d > 0; a float division by zero gives <<s, 0>> (the   *)
(* infinities and NaN), which the code computes but never consumes.        *)
(* Child positions and sizes are whole numbers: they come out of           *)
(* math.Round and of sums with the (whole) theme padding.                  *)
(*                                                                         *)
(* A child is the capability set the layout consumes: Visible(), MinSize(),*)
(* Move(pos), Resize(size).  The layout only ever writes a child's         *)
(* position and size, so a Layout call is recorded by the Move and Resize  *)
(* calls it makes on each child.                                           *)
(*                                                                         *)
(* Weight lists are non-empty lists of positive weights, as the layout     *)
(* documents; the button is one built by NewCMButton and shown.            *)
(*                                                                         *)
(* Spec is the layout with its container; ButtonSpec is a CMButton with    *)
(* its renderer.  The two share no code path; each specification holds the *)
(* other component's variables fixed.                                      *)
(***************************************************************************)
EXTENDS Integers, Sequences, FiniteSets, TLC

\* ------------------------------------------------------------- bounds
\* Largest total weight (TotalCols) of a constructed layout.
MaxTotal == 4
\* Runs of cmButtonRenderer.Refresh in one behaviour.
MaxRefreshes == 4

\* theme.Padding() values: none, and the default theme's.
Paddings == {0, 4}
\* Container sizes handed to Layout.
Sizes == {<<400, 100>>, <<100, 300>>, <<50, 30>>}
\* Intrinsic minimum sizes of children: a tall narrow kind and a wide flat
\* kind, which the container's children alternate between.
MinSizes == <<<<10, 20>>, <<30, 6>>>>
\* fyne.DeviceOrientation
Orientations == {"Vertical", "VerticalUpsideDown", "HorizontalLeft", "HorizontalRight"}

\* ------------------------------------------------------------- floats
Abs(x) == IF x < 0 THEN -x ELSE x

Sign(x) == IF x < 0 THEN -1 ELSE IF x > 0 THEN 1 ELSE 0

RECURSIVE GCD(_, _)
GCD(a, b) == IF b = 0 THEN a ELSE GCD(b, a % b)

\* n / d as a float division.
Frac(n, d) ==
    IF d = 0 THEN <<Sign(n), 0>>
    ELSE LET g == GCD(Abs(n), Abs(d))
             s == IF d < 0 THEN -1 ELSE 1
         IN  <<(s * n) \div g, (s * d) \div g>>

FromInt(i) == <<i, 1>>

RAdd(a, b) == Frac(a[1] * b[2] + b[1] * a[2], a[2] * b[2])

RMulInt(a, k) == Frac(a[1] * k, a[2])

RLeq(a, b) == a[1] * b[2] <= b[1] * a[2]

RMax(a, b) == IF RLeq(a, b) THEN b ELSE a

\* math.Round: to the nearest integer, halves away from zero.
Round(a) ==
    IF a[1] >= 0 THEN (2 * a[1] + a[2]) \div (2 * a[2])
    ELSE -((2 * (-a[1]) + a[2]) \div (2 * a[2]))

\* ------------------------------------------------------------- state
VARIABLES
    Cols,         \* weightedGridLayout.Cols
    TotalCols,    \* weightedGridLayout.TotalCols
    vertical,     \* weightedGridLayout.vertical
    adapt,        \* weightedGridLayout.adapt
    padding,      \* theme.Padding()
    orientation,  \* fyne.CurrentDevice().Orientation()
    objects,      \* the container's children: [visible, min]
    op,           \* the call that just returned: "none", "Layout", "MinSize"
    fault,        \* "none" or the run-time panic that ended the program
    arg,          \* the size handed to the last Layout call
    rows,         \* what countRows returned in the last call
    horiz,        \* what g.horizontal() returned in the last call
    result,       \* what the last MinSize call returned
    walk,         \* per child of the last Layout call: the cursor after it, and
                  \* the Move(pos) and Resize(size) made on it, if any
    button,       \* CMButton: Text, Icon, Importance, Alignment, IconPlacement,
                  \* hovered, focused, disabled, size
    renderer,     \* cmButtonRenderer: icon, label, background
    refreshes,    \* runs of cmButtonRenderer.Refresh so far
    last          \* the CMButton method that ran last

vars == <<Cols, TotalCols, vertical, adapt, padding, orientation, objects,
          op, fault, arg, rows, horiz, result, walk,
          button, renderer, refreshes, last>>

layoutVars == <<Cols, TotalCols, vertical, adapt, padding>>

gridVars == <<Cols, TotalCols, vertical, adapt, orientation, objects,
              op, fault, arg, rows, horiz, result, walk>>

buttonVars == <<button, renderer, refreshes, last>>

\* ------------------------------------------------------- construction
\* Mutant: the total is the number of slots.
sum_len(cols) == Len(cols)

RECURSIVE sum(_)
sum(cols) == IF cols = <<>> THEN 0 ELSE cols[1] + sum(Tail(cols))

\* Weight lists: non-empty, positive weights (the documented precondition).
WeightLists ==
    {c \in UNION {[1..n -> 1..MaxTotal] : n \in 1..MaxTotal} : sum(c) <= MaxTotal}

NewAdaptiveWeightedGridLayout(rowcols) ==
    [Cols |-> rowcols, TotalCols |-> sum(rowcols), vertical |-> FALSE, adapt |-> TRUE]

NewWeightedGridLayoutWithColumns(cols) ==
    [Cols |-> cols, TotalCols |-> sum(cols), vertical |-> FALSE, adapt |-> FALSE]

NewWeightedGridLayout(cols) == NewWeightedGridLayoutWithColumns(cols)

NewWeightedGridLayoutWithRows(rws) ==
    [Cols |-> rws, TotalCols |-> sum(rws), vertical |-> TRUE, adapt |-> FALSE]

Constructed ==
    UNION {{NewAdaptiveWeightedGridLayout(c), NewWeightedGridLayout(c),
            NewWeightedGridLayoutWithRows(c)} : c \in WeightLists}

\* ------------------------------------------------------------ helpers
IsHorizontal(orient) == orient \in {"HorizontalLeft", "HorizontalRight"}

\* Mutant: the adapt flag is ignored.
horizontal_static(g, orient) == ~g.vertical

horizontal(g, orient) == IF g.adapt THEN IsHorizontal(orient) ELSE ~g.vertical

\* Mutant: invisible children are walked like visible ones.
skipped_never(child) == FALSE

skipped(child) == ~child.visible

\* Mutant: every child takes the first slot's weight.
weight_first(g, idx) == g.Cols[1]

\* span := g.Cols[idx]
weight(g, idx) == g.Cols[idx]

\* The first visible child without a weight slot makes g.Cols[i] panic.
indexFault(g, objs) ==
    \E i \in 1..Len(objs) : ~skipped(objs[i]) /\ i > Len(g.Cols)

RECURSIVE visibleUnits(_, _, _)
visibleUnits(g, objs, i) ==
    IF i > Len(objs) THEN 0
    ELSE (IF skipped(objs[i]) THEN 0 ELSE weight(g, i)) + visibleUnits(g, objs, i + 1)

\* int(math.Ceil(float64(count) / float64(g.TotalCols)))
countRows(g, objs) ==
    LET count == visibleUnits(g, objs, 1)
    IN  (count + g.TotalCols - 1) \div g.TotalCols

getLeading(size, offset, pad) == Round(RMulInt(RAdd(size, FromInt(pad)), offset))

getTrailing(size, offset, pad) == getLeading(size, offset + 1, pad) - pad

\* Mutant: the vertical branch does not recompute the cells.
cells_noswap(g, hz, size, rws, pad) ==
    [w |-> Frac(size[1][1] - (g.TotalCols - 1) * pad * size[1][2], size[1][2] * g.TotalCols),
     h |-> Frac(size[2][1] - (rws - 1) * pad * size[2][2], size[2][2] * rws)]

\* cellWidth and cellHeight of Layout.
cells(g, hz, size, rws, pad) ==
    LET padT == (g.TotalCols - 1) * pad
        padR == (rws - 1) * pad
    IN  IF hz
        THEN [w |-> Frac(size[1][1] - padT * size[1][2], size[1][2] * g.TotalCols),
              h |-> Frac(size[2][1] - padR * size[2][2], size[2][2] * rws)]
        ELSE [w |-> Frac(size[1][1] - padR * size[1][2], size[1][2] * rws),
              h |-> Frac(size[2][1] - padT * size[2][2], size[2][2] * g.TotalCols)]

\* Mutant: a child never spans more than one unit.
spans_unit(hz, span) == <<1, 1>>

\* colSpan, rowSpan of a child of weight span.
spans(hz, span) == IF hz THEN <<span, 1>> ELSE <<1, span>>

\* One unit of the cursor's advance.
step(cur, hz, T) ==
    LET wrap == (cur.i + 1) % T = 0
    IN  IF hz
        THEN IF wrap THEN [row |-> cur.row + 1, col |-> 0, i |-> cur.i + 1]
                     ELSE [row |-> cur.row, col |-> cur.col + 1, i |-> cur.i + 1]
        ELSE IF wrap THEN [row |-> 0, col |-> cur.col + 1, i |-> cur.i + 1]
                     ELSE [row |-> cur.row + 1, col |-> cur.col, i |-> cur.i + 1]

RECURSIVE advance(_, _, _, _)
advance(cur, span, hz, T) ==
    IF span > 0 THEN advance(step(cur, hz, T), span - 1, hz, T) ELSE cur

\* The arguments of child.Move and child.Resize at cursor cur.
place(cur, span, hz, cell, pad) ==
    LET sp == spans(hz, span)
        x1 == getLeading(cell.w, cur.col, pad)
        y1 == getLeading(cell.h, cur.row, pad)
        x2 == getTrailing(cell.w, cur.col + sp[1] - 1, pad)
        y2 == getTrailing(cell.h, cur.row + sp[2] - 1, pad)
    IN  [pos |-> <<x1, y1>>, size |-> <<x2 - x1, y2 - y1>>]

Untouched == [pos |-> <<0, 0>>, size |-> <<0, 0>>]

\* The loop of Layout from child idx on: per child, the cursor after it and
\* the calls made on it.
RECURSIVE layoutLoop(_, _, _, _, _, _, _, _)
layoutLoop(g, objs, idx, cur, hz, cell, pad, trace) ==
    IF idx > Len(objs) THEN trace
    ELSE IF skipped(objs[idx])
    THEN layoutLoop(g, objs, idx + 1, cur, hz, cell, pad,
                    Append(trace, [cur |-> cur, moved |-> FALSE, at |-> Untouched]))
    ELSE LET span == weight(g, idx)
         IN  layoutLoop(g, objs, idx + 1, advance(cur, span, hz, g.TotalCols),
                        hz, cell, pad,
                        Append(trace, [cur |-> advance(cur, span, hz, g.TotalCols),
                                       moved |-> TRUE,
                                       at |-> place(cur, span, hz, cell, pad)]))

Origin == [row |-> 0, col |-> 0, i |-> 0]

\* weightedGridLayout.Layout on a fault-free input.
LayoutOf(g, objs, size, hz, pad) ==
    layoutLoop(g, objs, 1, Origin, hz,
               cells(g, hz, size, countRows(g, objs), pad), pad, <<>>)

\* The per-unit minimum: width, and height divided by the weight.
RECURSIVE unitMin(_, _, _, _)
unitMin(g, objs, i, acc) ==
    IF i > Len(objs) THEN acc
    ELSE IF skipped(objs[i]) THEN unitMin(g, objs, i + 1, acc)
    ELSE unitMin(g, objs, i + 1,
                 <<RMax(acc[1], FromInt(objs[i].min[1])),
                   RMax(acc[2], Frac(objs[i].min[2], weight(g, i)))>>)

Max0(x) == IF x > 0 THEN x ELSE 0

\* weightedGridLayout.MinSize on a fault-free input.
MinSizeOf(g, objs, hz, pad) ==
    LET rws == countRows(g, objs)
        m == unitMin(g, objs, 1, <<FromInt(0), FromInt(0)>>)
        T == g.TotalCols
    IN  IF hz
        THEN <<RAdd(RMulInt(m[1], T), FromInt(pad * Max0(T - 1))),
               RAdd(RMulInt(m[2], rws), FromInt(pad * Max0(rws - 1)))>>
        ELSE <<RAdd(RMulInt(m[1], rws), FromInt(pad * Max0(rws - 1))),
               RAdd(RMulInt(m[2], T), FromInt(pad * Max0(T - 1)))>>

\* ----------------------------------------------------------- CMButton
\* Label texts; "" is the button without a label.
Texts == {"", "OK", "Cancel"}

Importances == {"Medium", "High", "Low"}

Alignments == {"Center", "Leading", "Trailing"}

IconPlacements == {"LeadingText", "TrailingText"}

\* Sizes the button is given by its parent.
ButtonSizes == {<<120, 40>>}

Zero == <<FromInt(0), FromInt(0)>>

\* fyne.NewSize(theme.IconInlineSize(), theme.IconInlineSize())
iconSize == <<20, 20>>

\* r.label.MinSize(): the intrinsic size of the label for its text.
labelMinSize(text) ==
    CASE text = "OK" -> <<34, 32>>
      [] text = "Cancel" -> <<62, 32>>
      [] OTHER -> <<16, 32>>

\* NewCMButton(label, tapped), with the public fields the application sets.
NewCMButton(label, importance, alignment, placement, size) ==
    [Text |-> label, Icon |-> "nil", Importance |-> importance,
     Alignment |-> alignment, IconPlacement |-> placement,
     hovered |-> FALSE, focused |-> FALSE, disabled |-> FALSE, size |-> size]

blendColor(under, over) == <<"blend", under, over>>

buttonColor(b) ==
    IF b.disabled THEN "ColorDisabled"
    ELSE IF b.focused THEN blendColor("ColorEnabled", "ColorFocused")
    ELSE IF b.hovered
    THEN blendColor(IF b.Importance = "High" THEN "ColorPrimary" ELSE "ColorEnabled",
                    "ColorHover")
    ELSE IF b.Importance = "High" THEN "ColorPrimary"
    ELSE "ColorEnabled"

\* cmButtonRenderer.padding
rendererPadding(b, pad) == IF b.Text = "" THEN <<pad * 4, pad * 4>> ELSE <<pad * 6, pad * 4>>

alignedPosition(align, pd, objectSize, layoutSize) ==
    <<CASE align = "Center" -> Frac(layoutSize[1] - objectSize[1], 2)
        [] align = "Leading" -> Frac(pd[1], 2)
        [] OTHER -> Frac(2 * (layoutSize[1] - objectSize[1]) - pd[1], 2),
      Frac(layoutSize[2] - objectSize[2], 2)>>

PAdd(p, q) == <<RAdd(p[1], q[1]), RAdd(p[2], q[2])>>

updateIconAndText(b, r) ==
    LET icon == IF b.Icon # "nil"
                THEN [(IF r.icon.present THEN r.icon
                       ELSE [present |-> TRUE, hidden |-> FALSE, pos |-> Zero,
                             size |-> <<0, 0>>, min |-> <<0, 0>>, resource |-> b.Icon])
                      EXCEPT !.resource = IF b.disabled THEN "Disabled" ELSE b.Icon,
                             !.hidden = FALSE]
                ELSE IF r.icon.present THEN [r.icon EXCEPT !.hidden = TRUE]
                ELSE r.icon
    IN  [r EXCEPT !.icon = icon, !.label.hidden = (b.Text = "")]

applyTheme(b, r) ==
    LET name == IF b.disabled THEN "Disabled"
                ELSE IF b.Importance = "High" THEN "Background"
                ELSE "Foreground"
        res == IF ~r.icon.present THEN r.icon.resource
               ELSE IF r.icon.resource = "Themed" /\ b.Importance = "High" THEN "Inverted"
               ELSE IF r.icon.resource = "Inverted" /\ b.Importance # "High" THEN "Themed"
               ELSE r.icon.resource
    IN  [r EXCEPT !.background.fill = buttonColor(b), !.label.color = name,
                  !.icon.resource = res]

\* MinSize of the horizontal box: the visible children side by side.
RECURSIVE hboxMinSize(_, _, _, _)
hboxMinSize(children, i, pad, acc) ==
    IF i > Len(children) THEN acc.min
    ELSE IF children[i].hidden THEN hboxMinSize(children, i + 1, pad, acc)
    ELSE hboxMinSize(children, i + 1, pad,
           [min |-> <<acc.min[1] + children[i].min[1] + (IF acc.some THEN pad ELSE 0),
                      IF children[i].min[2] > acc.min[2] THEN children[i].min[2]
                      ELSE acc.min[2]>>,
            some |-> TRUE])

\* Layout of the horizontal box: each visible child is moved to the running
\* x and resized to its minimum width and the box height; an invisible child
\* is skipped.
RECURSIVE hboxLayout(_, _, _, _, _)
hboxLayout(children, i, x, size, pad) ==
    IF i > Len(children) THEN children
    ELSE IF children[i].hidden THEN hboxLayout(children, i + 1, x, size, pad)
    ELSE hboxLayout([children EXCEPT ![i].pos = <<FromInt(x), FromInt(0)>>,
                                     ![i].size = <<children[i].min[1], size[2]>>],
                    i + 1, x + pad + children[i].min[1], size, pad)

\* r.icon.Move(r.icon.Position().Add(pos))
iconOffset(iconPos, pos) == PAdd(iconPos, pos)

\* The background's position and size within a button of the given size.
backgroundRect(b, size, pad) ==
    IF b.Importance # "Low"
    THEN [pos |-> <<Frac(pad, 2), Frac(pad, 2)>>, size |-> <<size[1] - pad, size[2] - pad>>]
    ELSE [pos |-> Zero, size |-> size]

\* cmButtonRenderer.Layout
rendererLayout(b, r, size, pad) ==
    LET bg == backgroundRect(b, size, pad)
        r1 == [r EXCEPT !.background.pos = bg.pos, !.background.size = bg.size]
        hasIcon == r.icon.present
        hasLabel == r.label.text # ""
        labelSize == labelMinSize(r.label.text)
        pd == rendererPadding(b, pad)
    IN  IF ~hasIcon /\ ~hasLabel THEN r1
        ELSE IF hasLabel /\ hasIcon
        THEN LET ic == [r1.icon EXCEPT !.min = iconSize]
                 lb == [hidden |-> r1.label.hidden, min |-> labelSize,
                        pos |-> r1.label.pos, size |-> r1.label.size]
                 lead == b.IconPlacement = "LeadingText"
                 objs == IF lead THEN <<ic, lb>> ELSE <<lb, ic>>
                 min == hboxMinSize(objs, 1, pad, [min |-> <<0, 0>>, some |-> FALSE])
                 out == hboxLayout(objs, 1, 0, min, pad)
                 ic2 == out[IF lead THEN 1 ELSE 2]
                 lb2 == out[IF lead THEN 2 ELSE 1]
                 pos == alignedPosition(b.Alignment, pd, min, size)
             IN  [r1 EXCEPT !.label.pos = PAdd(lb2.pos, pos), !.label.size = lb2.size,
                            !.icon = [ic2 EXCEPT !.pos = iconOffset(ic2.pos, pos)]]
        ELSE IF hasLabel
        THEN [r1 EXCEPT !.label.pos = alignedPosition(b.Alignment, pd, labelSize, size),
                        !.label.size = labelSize]
        ELSE [r1 EXCEPT !.icon.pos = alignedPosition(b.Alignment, pd, iconSize, size),
                        !.icon.size = iconSize]

\* cmButtonRenderer.Refresh
rendererRefresh(b, r, pad) ==
    rendererLayout(b, applyTheme(b, updateIconAndText(b, [r EXCEPT !.label.text = b.Text])),
                   b.size, pad)

\* CMButton.CreateRenderer
CreateRenderer(b) ==
    applyTheme(b, updateIconAndText(b,
        [icon |-> [present |-> FALSE, hidden |-> FALSE, pos |-> Zero, size |-> <<0, 0>>,
                   min |-> <<0, 0>>, resource |-> "nil"],
         label |-> [text |-> b.Text, hidden |-> FALSE, pos |-> Zero, size |-> <<0, 0>>,
                    color |-> "Foreground"],
         background |-> [pos |-> Zero, size |-> <<0, 0>>, fill |-> "ColorEnabled"]]))

\* The button of the layout's specification: constructed, never touched.
IdleButton == NewCMButton("", "Medium", "Center", "LeadingText", <<0, 0>>)

\* ------------------------------------------------------------ actions
G == [Cols |-> Cols, TotalCols |-> TotalCols, vertical |-> vertical, adapt |-> adapt]

NoCall ==
    /\ op' = "none"
    /\ arg' = <<FromInt(0), FromInt(0)>>
    /\ rows' = 0
    /\ horiz' = FALSE
    /\ result' = <<FromInt(0), FromInt(0)>>
    /\ walk' = <<>>

Init ==
    /\ \E g \in Constructed :
        /\ Cols = g.Cols
        /\ TotalCols = g.TotalCols
        /\ vertical = g.vertical
        /\ adapt = g.adapt
    /\ padding \in Paddings
    /\ orientation \in Orientations
    /\ objects = <<>>
    /\ op = "none"
    /\ fault = "none"
    /\ arg = <<FromInt(0), FromInt(0)>>
    /\ rows = 0
    /\ horiz = FALSE
    /\ result = <<FromInt(0), FromInt(0)>>
    /\ walk = <<>>
    /\ button = IdleButton
    /\ renderer = CreateRenderer(IdleButton)
    /\ refreshes = 0
    /\ last = "CreateRenderer"

\* The container gains a child; it may hold one child more than the layout
\* has weight slots.
AddChild ==
    /\ fault = "none"
    /\ Len(objects) <= Len(Cols)
    /\ objects' = Append(objects, [visible |-> TRUE,
                                    min |-> MinSizes[(Len(objects) % Len(MinSizes)) + 1]])
    /\ NoCall
    /\ UNCHANGED <<layoutVars, orientation, fault, buttonVars>>

Hide ==
    /\ fault = "none"
    /\ \E i \in 1..Len(objects) :
        /\ objects[i].visible
        /\ objects' = [objects EXCEPT ![i].visible = FALSE]
    /\ NoCall
    /\ UNCHANGED <<layoutVars, orientation, fault, buttonVars>>

Show ==
    /\ fault = "none"
    /\ \E i \in 1..Len(objects) :
        /\ ~objects[i].visible
        /\ objects' = [objects EXCEPT ![i].visible = TRUE]
    /\ NoCall
    /\ UNCHANGED <<layoutVars, orientation, fault, buttonVars>>

Rotate ==
    /\ fault = "none"
    /\ \E o \in Orientations \ {orientation} : orientation' = o
    /\ NoCall
    /\ UNCHANGED <<layoutVars, objects, fault, buttonVars>>

\* Layout(objects, size); size is a container size or the size MinSize just returned.
Layout ==
    /\ fault = "none"
    /\ \E size \in {<<FromInt(s[1]), FromInt(s[2])>> : s \in Sizes}
                   \cup (IF op = "MinSize" THEN {result} ELSE {}) :
        IF indexFault(G, objects)
        THEN /\ fault' = "index out of range"
             /\ op' = "Layout"
             /\ arg' = size
             /\ UNCHANGED <<rows, horiz, result, walk>>
        ELSE LET hz == horizontal(G, orientation)
             IN  /\ walk' = LayoutOf(G, objects, size, hz, padding)
                 /\ rows' = countRows(G, objects)
                 /\ horiz' = hz
                 /\ arg' = size
                 /\ op' = "Layout"
                 /\ result' = <<FromInt(0), FromInt(0)>>
                 /\ UNCHANGED fault
    /\ UNCHANGED <<layoutVars, orientation, objects, buttonVars>>

MinSize ==
    /\ fault = "none"
    /\ IF indexFault(G, objects)
       THEN /\ fault' = "index out of range"
            /\ op' = "MinSize"
            /\ UNCHANGED <<rows, horiz, result>>
       ELSE LET hz == horizontal(G, orientation)
            IN  /\ result' = MinSizeOf(G, objects, hz, padding)
                /\ rows' = countRows(G, objects)
                /\ horiz' = hz
                /\ op' = "MinSize"
                /\ UNCHANGED fault
    /\ arg' = <<FromInt(0), FromInt(0)>>
    /\ walk' = <<>>
    /\ UNCHANGED <<layoutVars, orientation, objects, buttonVars>>

Next == AddChild \/ Hide \/ Show \/ Rotate \/ Layout \/ MinSize

Spec == Init /\ [][Next]_vars

\* --------------------------------------------------- CMButton actions
\* The layout of the button's specification: constructed, never called.
IdleLayout == NewWeightedGridLayout(<<1>>)

ButtonInit ==
    /\ Cols = IdleLayout.Cols
    /\ TotalCols = IdleLayout.TotalCols
    /\ vertical = IdleLayout.vertical
    /\ adapt = IdleLayout.adapt
    /\ orientation = "Vertical"
    /\ objects = <<>>
    /\ op = "none"
    /\ fault = "none"
    /\ arg = Zero
    /\ rows = 0
    /\ horiz = FALSE
    /\ result = Zero
    /\ walk = <<>>
    /\ padding \in Paddings
    /\ \E t \in Texts, imp \in Importances, al \in Alignments,
          pl \in IconPlacements, sz \in ButtonSizes :
        /\ button = NewCMButton(t, imp, al, pl, sz)
        /\ renderer = CreateRenderer(NewCMButton(t, imp, al, pl, sz))
    /\ refreshes = 0
    /\ last = "CreateRenderer"

\* b.Refresh() at the end of method name: the renderer is refreshed with the
\* button as the method left it.
RefreshAfter(name) ==
    /\ refreshes < MaxRefreshes
    /\ renderer' = rendererRefresh(button', renderer, padding)
    /\ refreshes' = refreshes + 1
    /\ last' = name
    /\ UNCHANGED <<gridVars, padding>>

SetText ==
    /\ \E t \in Texts : button' = [button EXCEPT !.Text = t]
    /\ RefreshAfter("SetText")

SetIcon ==
    /\ \E i \in {"nil", "Themed"} : button' = [button EXCEPT !.Icon = i]
    /\ RefreshAfter("SetIcon")

MouseIn ==
    /\ button' = [button EXCEPT !.hovered = TRUE]
    /\ RefreshAfter("MouseIn")

MouseOut ==
    /\ button' = [button EXCEPT !.hovered = FALSE]
    /\ RefreshAfter("MouseOut")

FocusGained ==
    /\ button' = [button EXCEPT !.focused = TRUE]
    /\ RefreshAfter("FocusGained")

FocusLost ==
    /\ button' = [button EXCEPT !.focused = FALSE]
    /\ RefreshAfter("FocusLost")

\* DisableableWidget.Disable
Disable ==
    /\ ~button.disabled
    /\ button' = [button EXCEPT !.disabled = TRUE]
    /\ RefreshAfter("Disable")

\* DisableableWidget.Enable
Enable ==
    /\ button.disabled
    /\ button' = [button EXCEPT !.disabled = FALSE]
    /\ RefreshAfter("Enable")

Tapped ==
    /\ ~button.disabled
    /\ button' = button
    /\ RefreshAfter("Tapped")

\* A refresh with no change of the button's state.
Refresh ==
    /\ button' = button
    /\ RefreshAfter("Refresh")

ButtonNext ==
    \/ SetText \/ SetIcon \/ MouseIn \/ MouseOut \/ FocusGained \/ FocusLost
    \/ Disable \/ Enable \/ Tapped \/ Refresh

ButtonSpec == ButtonInit /\ [][ButtonNext]_vars

\* ------------------------------------------------------------- claims
Visible == {i \in 1..Len(objects) : objects[i].visible}

LaidOut == op = "Layout" /\ fault = "none"

\* Units taken by the visible children before child i, from the weights.
RECURSIVE UnitsBefore(_)
UnitsBefore(i) ==
    IF i <= 1 THEN 0
    ELSE UnitsBefore(i - 1) + (IF objects[i - 1].visible THEN Cols[i - 1] ELSE 0)

\* The rounded edge of unit k along an axis of length len cut in T units.
Edge(len, k, T) == Round(Frac(len[1] * k, len[2] * T))

\* C1: in a horizontal layout with zero padding whose visible children's
\* weights sum to TotalCols, Layout puts the visible children on one row,
\* each starting at the unit column given by the weights of the visible
\* children before it and ending where the next one starts, the last one at
\* the container's width; weights [1,1,2] in 400x100 give [0,100), [100,200),
\* [200,400).
C1_NoGapsNoOverlap ==
    (LaidOut /\ horiz /\ padding = 0 /\ UnitsBefore(Len(objects) + 1) = TotalCols)
    => /\ rows = 1
       /\ \A i \in Visible :
            /\ walk[i].moved
            /\ walk[i].at.pos[1] = Edge(arg[1], UnitsBefore(i), TotalCols)
            /\ walk[i].at.pos[2] = 0
            /\ walk[i].at.pos[1] + walk[i].at.size[1]
                 = Edge(arg[1], UnitsBefore(i) + Cols[i], TotalCols)
            /\ walk[i].cur.i = UnitsBefore(i) + Cols[i]
       /\ (Cols = <<1, 1, 2>> /\ arg = <<FromInt(400), FromInt(100)>>)
            => /\ walk[1].at = [pos |-> <<0, 0>>, size |-> <<100, 100>>]
               /\ walk[2].at = [pos |-> <<100, 0>>, size |-> <<100, 100>>]
               /\ walk[3].at = [pos |-> <<200, 0>>, size |-> <<200, 100>>]

C1_Witness ==
    /\ LaidOut /\ horiz /\ padding = 0
    /\ Cols = <<1, 1, 2>> /\ Visible = {1, 2, 3}
    /\ arg = <<FromInt(400), FromInt(100)>>
    /\ walk[3].at = [pos |-> <<200, 0>>, size |-> <<200, 100>>]

\* C2: laid out at the size MinSize returns, every visible child is at least
\* as wide and as high as its own minimum size.
C2_MinSizeSatisfiesChildren ==
    (LaidOut /\ arg = MinSizeOf(G, objects, horiz, padding))
    => \A i \in Visible :
         /\ walk[i].at.size[1] >= objects[i].min[1]
         /\ walk[i].at.size[2] >= objects[i].min[2]

\* Units the visible children need: a child's weight, and at least one unit
\* for a child the weight list has no slot for.
RECURSIVE UnitsNeeded(_)
UnitsNeeded(i) ==
    IF i > Len(objects) THEN 0
    ELSE UnitsNeeded(i + 1)
         + (IF ~objects[i].visible THEN 0 ELSE IF i <= Len(Cols) THEN Cols[i] ELSE 1)

\* C3: when the visible children need more than TotalCols units, Layout and
\* MinSize complete normally and count ceil(units / TotalCols) > 1 rows.
C3_WrapsToNewRows ==
    (op # "none" /\ UnitsNeeded(1) > TotalCols)
    => /\ fault = "none"
       /\ rows = (UnitsNeeded(1) + TotalCols - 1) \div TotalCols
       /\ rows > 1

\* C4: with no visible child the row count is 0, Layout and MinSize do not
\* fault, MinSize returns (0,0) and Layout moves or resizes no child.
C4_NoVisibleChildIsEmpty ==
    (op # "none" /\ Visible = {})
    => /\ fault = "none"
       /\ rows = 0
       /\ op = "MinSize" => result = <<FromInt(0), FromInt(0)>>
       /\ op = "Layout" => \A i \in 1..Len(walk) : ~walk[i].moved

\* The case of C5: rows [1,2,1], vertical, three visible children, 100x300,
\* zero padding.
C5_Case ==
    /\ LaidOut /\ ~adapt /\ vertical /\ padding = 0
    /\ Cols = <<1, 2, 1>> /\ Visible = {1, 2, 3}
    /\ arg = <<FromInt(100), FromInt(300)>>

\* C5 as stated: the three children are 100, 200 and 100 high, stacked in one
\* column of width 100.
C5_AsStated ==
    C5_Case
    => /\ walk[1].at = [pos |-> <<0, 0>>, size |-> <<100, 100>>]
       /\ walk[2].at = [pos |-> <<0, 100>>, size |-> <<100, 200>>]
       /\ walk[3].at = [pos |-> <<0, 300>>, size |-> <<100, 100>>]

\* C5 (amended): the unit is 300/4 = 75, so the three children are 75, 150
\* and 75 high, stacked top to bottom in one column of width 100.
C5_VerticalScenario ==
    C5_Case
    => /\ rows = 1
       /\ walk[1].at = [pos |-> <<0, 0>>, size |-> <<100, 75>>]
       /\ walk[2].at = [pos |-> <<0, 75>>, size |-> <<100, 150>>]
       /\ walk[3].at = [pos |-> <<0, 225>>, size |-> <<100, 75>>]

C5_Witness == C5_Case /\ walk[2].at.size[2] = 150

\* seq without its k-th element.
Omit(seq, k) == [j \in 1..(Len(seq) - 1) |-> IF j < k THEN seq[j] ELSE seq[j + 1]]

\* The layout without the weight slot of child k, TotalCols kept.
WithoutSlot(k) == [G EXCEPT !.Cols = IF k <= Len(Cols) THEN Omit(Cols, k) ELSE Cols]

\* The calls the last Layout made on the children other than k agree with
\* those of a Layout of layout g on the children without k.
SameAsOmitted(g, k) ==
    LET objs == Omit(objects, k)
        other == LayoutOf(g, objs, arg, horiz, padding)
    IN  /\ ~indexFault(g, objs)
        /\ rows = countRows(g, objs)
        /\ \A j \in 1..Len(objs) :
             /\ other[j].moved = walk[IF j < k THEN j ELSE j + 1].moved
             /\ other[j].at = walk[IF j < k THEN j ELSE j + 1].at

\* C6 as stated: laying out with child k invisible gives the other children
\* the positions and sizes of laying out the child list without k, with the
\* same row count.
C6_AsStated ==
    LaidOut => \A k \in (1..Len(objects)) \ Visible : SameAsOmitted(G, k)

\* C6 (amended): laying out with child k invisible gives the other children
\* the positions and sizes, and the row count, of laying out the child list
\* without k when k's weight slot is left out with it (TotalCols unchanged);
\* leaving out only the child does so when k is the last child.
C6_InvisibleIsOmitted ==
    LaidOut => \A k \in (1..Len(objects)) \ Visible :
                 /\ SameAsOmitted(WithoutSlot(k), k)
                 /\ k = Len(objects) => SameAsOmitted(G, k)

C6_Witness ==
    /\ LaidOut /\ Len(objects) = 3 /\ Visible = {2, 3}
    /\ Cols = <<1, 2, 1>>
    /\ walk[2].at.size # walk[3].at.size

\* C7: Layout makes no Move and no Resize on an invisible child, and the
\* cursor (row, col, flat index) does not advance for it.
C7_InvisibleUntouched ==
    LaidOut => \A i \in (1..Len(objects)) \ Visible :
                 /\ ~walk[i].moved
                 /\ walk[i].at = Untouched
                 /\ walk[i].cur = IF i = 1 THEN Origin ELSE walk[i - 1].cur

C7_Witness ==
    /\ LaidOut /\ Len(objects) = 3 /\ Visible = {1, 3}
    /\ walk[1].cur.i > 0
    /\ walk[2].cur = walk[1].cur
    /\ walk[3].moved

\* C8: an adaptive layout uses the device orientation of the moment of the
\* call (horizontal device, horizontal layout); a column or row layout uses
\* the orientation fixed by its vertical flag, whatever the device's.
C8_OrientationResolution ==
    (op # "none" /\ fault = "none")
    => LET hz == IF adapt THEN orientation \in {"HorizontalLeft", "HorizontalRight"}
                 ELSE ~vertical
       IN  /\ horiz = hz
           /\ op = "Layout" => walk = LayoutOf(G, objects, arg, hz, padding)
           /\ op = "MinSize" => result = MinSizeOf(G, objects, hz, padding)
           /\ (op = "Layout" /\ rows = 1) =>
                \A i \in Visible : walk[i].at.pos[IF hz THEN 2 ELSE 1] = 0

C8_Witness ==
    /\ LaidOut /\ adapt /\ orientation = "Vertical" /\ ~horiz
    /\ Visible = {1, 2}
    /\ walk[2].at.pos[1] = 0 /\ walk[2].at.pos[2] > 0

\* x and y, width and height, row and col exchanged.
Swap(w) ==
    [cur |-> [row |-> w.cur.col, col |-> w.cur.row, i |-> w.cur.i],
     moved |-> w.moved,
     at |-> [pos |-> <<w.at.pos[2], w.at.pos[1]>>, size |-> <<w.at.size[2], w.at.size[1]>>]]

\* C10: a vertical Layout in a container (W,H) gives each child the rectangle
\* of the horizontal Layout in (H,W) with x and y, width and height
\* exchanged, and after every child the cursor is the horizontal walk's with
\* row and col exchanged, at the same flat index.
C10_VerticalIsAxisSwap ==
    (LaidOut /\ ~horiz)
    => LET h == LayoutOf(G, objects, <<arg[2], arg[1]>>, TRUE, padding)
       IN  /\ Len(walk) = Len(h)
           /\ \A i \in 1..Len(walk) : walk[i] = Swap(h[i])

C10_Witness ==
    /\ LaidOut /\ ~horiz /\ padding = 4
    /\ Visible = {1, 2} /\ Cols[1] # Cols[2]
    /\ walk[2].at.pos[2] > 0 /\ walk[2].at.size[1] # walk[2].at.size[2]

\* Position and size of the background, the label and the icon.
Geometry ==
    <<renderer.background.pos, renderer.background.size,
      renderer.label.pos, renderer.label.size,
      renderer.icon.pos, renderer.icon.size>>

\* C9: every state-affecting method of the button refreshes the renderer,
\* which lays the button out at its current size, and a refresh with no
\* state change in between leaves the position and size of the background,
\* the label and the icon as they were.
C9_RefreshIsIdempotent ==
    [][/\ button' # button =>
            /\ refreshes' = refreshes + 1
            /\ renderer'.label.text = button'.Text
            /\ renderer'.background.fill = buttonColor(button')
            /\ renderer'.background.pos = backgroundRect(button', button'.size, padding).pos
            /\ renderer'.background.size = backgroundRect(button', button'.size, padding).size
       /\ (last' = "Refresh" /\ last # "CreateRenderer") => Geometry' = Geometry]_vars

====
